---- MODULE Spec2Model ----
(***************************************************************************)
(* Gipity Scaffold image asset generator (gipity-image-resizer.py).        *)
(*                                                                         *)
(* The model has two layers.  The transform engine (resize_image) is a     *)
(* pure computation on image sizes; Pillow's Image.thumbnail is modelled   *)
(* by the algorithm of Pillow >= 9.1 (the release that introduced          *)
(* Image.Resampling, which the script uses) in exact integer arithmetic.   *)
(* The catalog orchestrator (the generate_* functions and main) is a state *)
(* machine over a file system: the master images, the files and            *)
(* directories written so far, and the counters.                           *)
(***************************************************************************)
EXTENDS Integers, Sequences, FiniteSets, TLC

VARIABLES
    cwd,        \* "root": the process runs in PROJECT_ROOT; "other": elsewhere
    master,     \* role -> the master image file: status, native size, mode
    badDir,     \* directories os.makedirs cannot create (resolved keys)
    badFile,    \* files that cannot be opened for writing (resolved keys)
    manifest,   \* public/manifest.json: status, icons array, other keys, writes
    fs,         \* resolved file key -> content of each file written
    dirs,       \* resolved directory keys created by ensure_directory
    wc,         \* resolved file key -> number of writes in this run
    att,        \* number of asset tasks attempted so far
    pc,         \* position of the process
    ran,        \* catalog functions that have returned
    counts,     \* catalog -> value main adds to the total (after "or 0")
    reports,    \* the "succeeded/expected" lines printed, in order
    total,      \* main's total_images_generated
    exit,       \* process exit status; -1 while running
    call,       \* arguments of the call under test (engine and catalog specs)
    ret,        \* its return value
    log         \* warning and error messages printed, by what they name

vars == <<cwd, master, badDir, badFile, manifest, fs, dirs, wc, att, pc, ran,
          counts, reports, total, exit, call, ret, log>>

(***************************************************************************)
(* Bounds of the model.                                                    *)
(***************************************************************************)
MaxDim == 4       \* small image sides 1..MaxDim drawn for the engine
MaxFaulty == 2    \* masters that are missing or corrupt in one run

(***************************************************************************)
(* Masters (main, master_images).                                          *)
(***************************************************************************)
Roles == {"icon", "logo", "logo_inverted", "splash_square", "splash_portrait",
          "splash_landscape", "splash_icon"}

\* The documented native size of each master (module docstring).
NominalSize(r) ==
    CASE r = "icon" -> <<1024, 1024>>
      [] r = "logo" -> <<480, 128>>
      [] r = "logo_inverted" -> <<480, 128>>
      [] r = "splash_square" -> <<2732, 2732>>
      [] r = "splash_portrait" -> <<1280, 1920>>
      [] r = "splash_landscape" -> <<1920, 1280>>
      [] OTHER -> <<1024, 1024>>

\* os.path.exists(master path)
Exists(r) == master[r].status # "missing"

\* The bytes of a master file, as a file content.
MasterBytes(r) ==
    [kind |-> "master", src |-> r, w |-> master[r].w, h |-> master[r].h,
     cw |-> master[r].w, ch |-> master[r].h, x |-> 0, y |-> 0,
     mode |-> master[r].mode]

(***************************************************************************)
(* Paths.  A file is <<base, directory, name>>, a directory <<base,        *)
(* directory>>; base "proj" is get_project_path (absolute, under           *)
(* PROJECT_ROOT), base "cwd" is a path relative to the working directory.  *)
(***************************************************************************)
ResolveBase(b) == IF b = "cwd" /\ cwd = "root" THEN "proj" ELSE b

Resolve(p) == <<ResolveBase(p[1]), p[2], p[3]>>

ResolveDir(d) == <<ResolveBase(d[1]), d[2]>>

\* os.path.dirname(output_path)
DirOf(p) == <<p[1], p[2]>>

\* os.makedirs(path, exist_ok=True) succeeds
CanMakeDir(d) == ResolveDir(d) \notin badDir

\* a file at p can be created or overwritten
CanWrite(p) == Resolve(p) \notin badFile /\ CanMakeDir(DirOf(p))

(***************************************************************************)
(* Transform engine geometry.                                              *)
(***************************************************************************)
\* Sides n for which the double product n * 0.7 falls just below the exact
\* value 7n/10, so that int() truncates to one less (IEEE-754 doubles).
Float07Low == {90, 170, 180, 330, 340, 350, 360, 650, 660, 670, 680, 690,
               700, 710, 720, 730}

\* a faulty Int07: the box is the whole canvas
Int07_NoMargin(n) == n

\* int(n * 0.7) for 1 <= n <= 1024
Int07(n) == IF n \in Float07Low THEN (7 * n) \div 10 - 1 ELSE (7 * n) \div 10

Abs(i) == IF i < 0 THEN -i ELSE i

Max(a, b) == IF a >= b THEN a ELSE b

\* round_aspect for the branch that keeps the box height y: the candidates
\* are floor and ceil of y * sw / sh, the key is |sw/sh - n/y|; min() keeps
\* the first candidate (floor) on a tie; the result is at least 1.
RoundWidth(sw, sh, y) ==
    LET f == (y * sw) \div sh
        c == IF f * sh = y * sw THEN f ELSE f + 1
    IN  Max(IF Abs(sw * y - f * sh) <= Abs(sw * y - c * sh) THEN f ELSE c, 1)

\* round_aspect for the branch that keeps the box width x: candidates floor
\* and ceil of x * sh / sw, key 0 for n = 0 and |sw/sh - x/n| otherwise.
RoundHeight(sw, sh, x) ==
    LET f == (x * sh) \div sw
        c == IF f * sw = x * sh THEN f ELSE f + 1
    IN  Max(IF f = 0 \/ Abs(sw * f - x * sh) * c <= Abs(sw * c - x * sh) * f
            THEN f ELSE c, 1)

\* a faulty thumbnail: the image is stretched to the box
thumbnail_Stretch(sw, sh, bx, by) == [ok |-> bx >= 1 /\ by >= 1, w |-> bx, h |-> by]

\* Image.thumbnail((bx, by)) on an image of size (sw, sh): the new size, or
\* ok = FALSE when it raises (a zero box side: ZeroDivisionError in x / y,
\* or resize to a zero width).  Never enlarges.
thumbnail(sw, sh, bx, by) ==
    IF bx >= sw /\ by >= sh THEN [ok |-> TRUE, w |-> sw, h |-> sh]
    ELSE IF bx = 0 \/ by = 0 THEN [ok |-> FALSE, w |-> 0, h |-> 0]
    ELSE IF bx * sh >= by * sw
         THEN [ok |-> TRUE, w |-> RoundWidth(sw, sh, by), h |-> by]
         ELSE [ok |-> TRUE, w |-> bx, h |-> RoundHeight(sw, sh, bx)]

\* a faulty PasteOffset: the content is pasted at the top left corner
PasteOffset_TopLeft(t, c) == 0

\* x = (size[0] - img.width) // 2
PasteOffset(t, c) == (t - c) \div 2

\* size=None is written <<0, 0>>; real target sides are at least 1.
NoneSize == <<0, 0>>

\* a faulty copy2: the image is decoded and saved again as an RGBA PNG
copy2_Reencode(bytes) == [bytes EXCEPT !.kind = "png", !.mode = "RGBA"]

\* shutil.copy2: the destination receives the source's bytes.
copy2(bytes) == bytes

\* The image resize_image saves for a readable source r, after the
\* exact-size test has failed: RGBA, thumbnail + centred paste or stretch.
\* ok = FALSE when thumbnail raises.
Pasted(r, size, th) ==
    [ok |-> th.ok,
     img |-> [kind |-> "png", src |-> r, w |-> size[1], h |-> size[2],
              cw |-> th.w, ch |-> th.h,
              x |-> PasteOffset(size[1], th.w),
              y |-> PasteOffset(size[2], th.h), mode |-> "RGBA"]]

Stretched(r, size) ==
    [ok |-> TRUE,
     img |-> [kind |-> "png", src |-> r, w |-> size[1], h |-> size[2],
              cw |-> size[1], ch |-> size[2], x |-> 0, y |-> 0, mode |-> "RGBA"]]

\* target_size = (int(size[0] * 0.7), int(size[1] * 0.7)), or size itself
FitBox(size, safe) == IF safe THEN <<Int07(size[1]), Int07(size[2])>> ELSE size

Rendered(r, size, maintain_aspect, safe) ==
    IF maintain_aspect
    THEN Pasted(r, size, thumbnail(master[r].w, master[r].h,
                                   FitBox(size, safe)[1], FitBox(size, safe)[2]))
    ELSE Stretched(r, size)

(***************************************************************************)
(* Effects on the file system, threaded through a record st =              *)
(* [fs, dirs, wc, att, n, crash]: n is the running success_count, crash    *)
(* is TRUE once an exception has escaped.                                  *)
(***************************************************************************)
\* ensure_directory(d), known to succeed
MadeDir(st, d) == [st EXCEPT !.dirs = @ \cup {ResolveDir(d)}]

\* the file p now holds content c
Written(st, p, c) ==
    LET k == Resolve(p)
    IN  [st EXCEPT
            !.fs = [q \in DOMAIN st.fs \cup {k} |-> IF q = k THEN c ELSE st.fs[q]],
            !.wc = [q \in DOMAIN st.wc \cup {k} |->
                       IF q = k THEN (IF k \in DOMAIN st.wc THEN st.wc[k] ELSE 0) + 1
                       ELSE st.wc[q]]]

\* size == source_img.size, after size=None has been replaced
IsExactSize(r, size) == size = NoneSize \/ size = <<master[r].w, master[r].h>>

\* ensure_directory(dirname(out)), then the copy or save of content c;
\* either may raise, which resize_image catches
SaveTo(s1, out, c) ==
    IF ~CanMakeDir(DirOf(out)) THEN [st |-> s1, ok |-> FALSE]
    ELSE IF ~CanWrite(out) THEN [st |-> MadeDir(s1, DirOf(out)), ok |-> FALSE]
    ELSE [st |-> Written(MadeDir(s1, DirOf(out)), out, c), ok |-> TRUE]

\* the body of resize_image's try block, rd being the rendered image
ResizeOutcome(s1, r, out, size, rd) ==
    IF master[r].status # "ok" THEN [st |-> s1, ok |-> FALSE]
    ELSE IF IsExactSize(r, size) THEN SaveTo(s1, out, copy2(MasterBytes(r)))
    ELSE IF ~rd.ok THEN [st |-> s1, ok |-> FALSE]
    ELSE SaveTo(s1, out, rd.img)

\* print(f"Error creating {output_path}: {e}"): a message naming the file p
ErrorAt(st, p) ==
    [st EXCEPT !.log = @ \cup {<<"error", Resolve(p)[1], Resolve(p)[2], Resolve(p)[3]>>}]

\* a warning or error naming a master or a group of tasks, not a file
Message(st, kind, subject) == [st EXCEPT !.log = @ \cup {<<kind, subject, "", "">>}]

\* except Exception as e: print the error, return False
Caught(r, out) == IF r.ok THEN r ELSE [st |-> ErrorAt(r.st, out), ok |-> FALSE]

\* resize_image(source of role r, out, size, maintain_aspect, safe):
\* [st, ok] where ok is the returned bool.  Every exception is caught.
resize_image(st, r, out, size, maintain_aspect, safe) ==
    Caught(ResizeOutcome([st EXCEPT !.att = @ + 1], r, out, size,
                         Rendered(r, IF size = NoneSize
                                     THEN <<master[r].w, master[r].h>> ELSE size,
                                  maintain_aspect, safe)),
           out)

St0 ==
    [fs |-> fs, dirs |-> dirs, wc |-> wc, att |-> att, n |-> 0, crash |-> FALSE,
     reports |-> reports, log |-> log]

(***************************************************************************)
(* Catalog steps.  A catalog function is a list of steps run in order:     *)
(*   mkdir   ensure_directory outside any try: a failure escapes           *)
(*   resize  a resize_image call; success_count += 1 when it returns True  *)
(*   blank   the transparent adaptive-icon background, saved inside a try  *)
(*   write   open(path, 'w') + write outside any try: a failure escapes    *)
(*   add     success_count += w                                            *)
(*   copy    the guarded shutil.copy2 of public/icons/icon-192x192.png     *)
(*   report  the "succeeded/expected" line, w = expected                   *)
(*   warn    a printed warning that a group of tasks is skipped            *)
(***************************************************************************)
MkDir(base, dir) ==
    [op |-> "mkdir", base |-> base, dir |-> dir, name |-> "", role |-> "",
     w |-> 0, h |-> 0, safe |-> FALSE]

Resize(role, base, dir, name, w, h, safe) ==
    [op |-> "resize", base |-> base, dir |-> dir, name |-> name, role |-> role,
     w |-> w, h |-> h, safe |-> safe]

Blank(base, dir, name, w, h) ==
    [op |-> "blank", base |-> base, dir |-> dir, name |-> name, role |-> "",
     w |-> w, h |-> h, safe |-> FALSE]

WriteText(base, dir, name) ==
    [op |-> "write", base |-> base, dir |-> dir, name |-> name, role |-> "",
     w |-> 0, h |-> 0, safe |-> FALSE]

Add(k) ==
    [op |-> "add", base |-> "", dir |-> "", name |-> "", role |-> "",
     w |-> k, h |-> 0, safe |-> FALSE]

Copy(base, dir, name, srcdir, srcname) ==
    [op |-> "copy", base |-> base, dir |-> dir, name |-> name, role |-> srcname,
     w |-> 0, h |-> 0, safe |-> FALSE, srcdir |-> srcdir]

Report(label, expected) ==
    [op |-> "report", base |-> "", dir |-> "", name |-> label, role |-> "",
     w |-> expected, h |-> 0, safe |-> FALSE]

Warn(subject) ==
    [op |-> "warn", base |-> "", dir |-> "", name |-> subject, role |-> "",
     w |-> 0, h |-> 0, safe |-> FALSE]

\* the steps that produce one output each
TaskOps == {"resize", "blank", "write", "copy"}

\* f"{prefix}{w}x{h}.png"
SizedName(prefix, w, h) == prefix \o ToString(w) \o "x" \o ToString(h) \o ".png"

\* Image.new('RGBA', (w, h), (0, 0, 0, 0)) saved as PNG
BlankImage(w, h) ==
    [kind |-> "png", src |-> "", w |-> w, h |-> h, cw |-> 0, ch |-> 0,
     x |-> 0, y |-> 0, mode |-> "RGBA"]

\* a text document (XML, JSON) named by its file name
TextDoc(name) ==
    [kind |-> "text", src |-> name, w |-> 0, h |-> 0, cw |-> 0, ch |-> 0,
     x |-> 0, y |-> 0, mode |-> "text"]

Raised(st) == [st EXCEPT !.crash = TRUE]

Counted(st) == [st EXCEPT !.n = @ + 1]

Attempt(st) == [st EXCEPT !.att = @ + 1]

\* if resize_image(...): success_count += 1
CountIfTrue(r) == IF r.ok THEN Counted(r.st) ELSE r.st

\* if os.path.exists(src): try: shutil.copy2(src, p); success_count += 1
\* except: an error message; no else branch: an absent src prints nothing
CopyStep(st, src, p) ==
    IF src \notin DOMAIN st.fs THEN st
    ELSE IF CanWrite(p) THEN Counted(Written(st, p, copy2(st.fs[src])))
    ELSE ErrorAt(st, p)

StepPath(s) == <<s.base, s.dir, s.name>>

DoStep(s, st) ==
    CASE s.op = "mkdir" ->
           IF CanMakeDir(<<s.base, s.dir>>) THEN MadeDir(st, <<s.base, s.dir>>)
           ELSE Raised(st)
      [] s.op = "resize" ->
           CountIfTrue(resize_image(st, s.role, StepPath(s), <<s.w, s.h>>, TRUE,
                                    s.safe))
      [] s.op = "blank" ->
           IF CanWrite(StepPath(s))
           THEN Counted(Written(Attempt(st), StepPath(s), BlankImage(s.w, s.h)))
           ELSE ErrorAt(Attempt(st), StepPath(s))
      [] s.op = "write" ->
           IF CanWrite(StepPath(s))
           THEN Written(Attempt(st), StepPath(s), TextDoc(s.name))
           ELSE Raised(Attempt(st))
      [] s.op = "add" -> [st EXCEPT !.n = @ + s.w]
      [] s.op = "copy" ->
           CopyStep(Attempt(st), Resolve(<<s.base, s.srcdir, s.role>>), StepPath(s))
      [] s.op = "warn" -> Message(st, "warning", s.name)
      [] OTHER -> [st EXCEPT !.reports = Append(@, <<s.name, st.n, s.w>>)]

RECURSIVE RunSteps(_, _)
RunSteps(steps, st) ==
    IF steps = <<>> \/ st.crash THEN st
    ELSE RunSteps(Tail(steps), DoStep(Head(steps), st))

\* a function that starts its own success_count at 0 and returns it
Returns(st) == [st |-> st, ret |-> st.n]

Fresh(st) == [st EXCEPT !.n = 0]

(***************************************************************************)
(* Output directories.                                                     *)
(***************************************************************************)
PublicIcons == "public/icons"

ClientAssets == "client/src/assets"

PublicSplash == "public/splash"

AppIconSet == "ios/App/App/Assets.xcassets/AppIcon.appiconset"

LogoSet == "ios/App/App/Assets.xcassets/Logo.imageset"

LogoInvertedSet == "ios/App/App/Assets.xcassets/LogoInverted.imageset"

SplashSet == "ios/App/App/Assets.xcassets/Splash.imageset"

Res(sub) == "android/app/src/main/res/" \o sub

(***************************************************************************)
(* Web catalogs.                                                           *)
(***************************************************************************)
web_sizes == <<192, 512>>

WebIconSteps(icon) ==
    <<MkDir("proj", PublicIcons)>>
    \o [i \in 1 .. Len(web_sizes) |->
          Resize(icon, "proj", PublicIcons,
                 SizedName("icon-", web_sizes[i], web_sizes[i]),
                 web_sizes[i], web_sizes[i], FALSE)]
    \o <<Report("Web PWA icons", Len(web_sizes))>>

generate_web_icons(st, icon) == Returns(RunSteps(WebIconSteps(icon), Fresh(st)))

\* <<directory, file name, width, height>>
web_logo_variants(suffix) ==
    <<<<PublicIcons, "logo" \o suffix \o ".png", 120, 32>>,
      <<ClientAssets, "logo" \o suffix \o ".png", 120, 32>>,
      <<ClientAssets, "logo" \o suffix \o "@2x.png", 240, 64>>,
      <<ClientAssets, "logo" \o suffix \o "@3x.png", 360, 96>>>>

web_icon_variants ==
    <<<<ClientAssets, "icon-64x64.png", 64, 64>>,
      <<ClientAssets, "icon-128x128.png", 128, 128>>>>

\* resize_image(role, get_project_path(dir/name), (w, h)) for each variant
ProjTasks(role, variants) ==
    [i \in 1 .. Len(variants) |->
        Resize(role, "proj", variants[i][1], variants[i][2], variants[i][3],
               variants[i][4], FALSE)]

\* iconMaster: os.path.exists(icon_master_path), the guard of the icon variants
WebLogoSteps(logo, iconMaster) ==
    <<MkDir("proj", PublicIcons), MkDir("proj", ClientAssets)>>
    \o ProjTasks(logo, web_logo_variants(""))
    \o (IF iconMaster THEN ProjTasks("icon", web_icon_variants)
        ELSE <<Warn("icon variants")>>)
    \o <<Copy("proj", ClientAssets, "icon-192x192.png", PublicIcons,
              "icon-192x192.png")>>
    \o <<Report("Web logos and assets",
                Len(web_logo_variants("")) + Len(web_icon_variants) + 1)>>

generate_web_logos(st, logo) ==
    Returns(RunSteps(WebLogoSteps(logo, Exists("icon")), Fresh(st)))

WebLogoInvertedSteps(logo) ==
    <<MkDir("proj", PublicIcons), MkDir("proj", ClientAssets)>>
    \o ProjTasks(logo, web_logo_variants("-inverted"))
    \o <<Report("Web inverted logos and assets",
                Len(web_logo_variants("-inverted")))>>

generate_web_logos_inverted(st, logo) ==
    Returns(RunSteps(WebLogoInvertedSteps(logo), Fresh(st)))

(***************************************************************************)
(* iOS catalogs.  Their output paths are relative to the working           *)
(* directory.                                                              *)
(***************************************************************************)
ios_sizes == <<1024, 180, 167, 152, 120, 114, 87, 80, 76, 60, 58, 57, 40, 29,
               20, 144, 72>>

capacitor_appicon_defaults ==
    <<<<"AppIcon-20x20@1x.png", 20>>, <<"AppIcon-20x20@2x-1.png", 40>>,
      <<"AppIcon-20x20@2x.png", 40>>, <<"AppIcon-20x20@3x.png", 60>>,
      <<"AppIcon-29x29@1x.png", 29>>, <<"AppIcon-29x29@2x-1.png", 58>>,
      <<"AppIcon-29x29@2x.png", 58>>, <<"AppIcon-29x29@3x.png", 87>>,
      <<"AppIcon-40x40@1x.png", 40>>, <<"AppIcon-40x40@2x-1.png", 80>>,
      <<"AppIcon-40x40@2x.png", 80>>, <<"AppIcon-40x40@3x.png", 120>>,
      <<"AppIcon-512@2x.png", 512>>, <<"AppIcon-60x60@2x.png", 120>>,
      <<"AppIcon-60x60@3x.png", 180>>, <<"AppIcon-76x76@1x.png", 76>>,
      <<"AppIcon-76x76@2x.png", 152>>, <<"AppIcon-83.5x83.5@2x.png", 167>>>>

IosIconSteps(icon) ==
    <<MkDir("cwd", AppIconSet)>>
    \o [i \in 1 .. Len(ios_sizes) |->
          Resize(icon, "cwd", AppIconSet,
                 SizedName("icon-", ios_sizes[i], ios_sizes[i]),
                 ios_sizes[i], ios_sizes[i], FALSE)]
    \o [i \in 1 .. Len(capacitor_appicon_defaults) |->
          Resize(icon, "cwd", AppIconSet, capacitor_appicon_defaults[i][1],
                 capacitor_appicon_defaults[i][2],
                 capacitor_appicon_defaults[i][2], FALSE)]
    \o <<Report("iOS app icons", Len(ios_sizes) + Len(capacitor_appicon_defaults))>>

generate_ios_icons(st, icon) == Returns(RunSteps(IosIconSteps(icon), Fresh(st)))

ios_logo_sizes(suffix) ==
    <<<<"logo" \o suffix \o ".png", 120, 32>>,
      <<"logo" \o suffix \o "@2x.png", 240, 64>>,
      <<"logo" \o suffix \o "@3x.png", 360, 96>>,
      <<"logo" \o suffix \o "@4x.png", 480, 128>>>>

IosLogoSteps(logo, dir, sizes, label) ==
    <<MkDir("cwd", dir)>>
    \o [i \in 1 .. Len(sizes) |->
          Resize(logo, "cwd", dir, sizes[i][1], sizes[i][2], sizes[i][3], FALSE)]
    \o <<Report(label, Len(sizes))>>

generate_ios_logos(st, logo) ==
    Returns(RunSteps(
        IosLogoSteps(logo, LogoSet, ios_logo_sizes(""), "iOS header logos"),
        Fresh(st)))

generate_ios_logos_inverted(st, logo) ==
    Returns(RunSteps(
        IosLogoSteps(logo, LogoInvertedSet, ios_logo_sizes("-inverted"),
                     "iOS header inverted logos"),
        Fresh(st)))

(***************************************************************************)
(* Android catalogs.  The icon catalog writes relative to the working      *)
(* directory, the adaptive-icon XML files and the logos under the project  *)
(* root.                                                                   *)
(***************************************************************************)
android_densities ==
    <<<<"ldpi", 36>>, <<"mdpi", 48>>, <<"hdpi", 72>>, <<"xhdpi", 96>>,
      <<"xxhdpi", 144>>, <<"xxxhdpi", 192>>>>

\* one pass of the density loop: directory, three icons, the background
AndroidIconSteps(icon, d) ==
    LET dir == Res("mipmap-" \o d[1])
        size == d[2]
    IN  <<MkDir("cwd", dir),
          Resize(icon, "cwd", dir, "ic_launcher.png", size, size, FALSE),
          Resize(icon, "cwd", dir, "ic_launcher_round.png", size, size, FALSE),
          Resize(icon, "cwd", dir, "ic_launcher_foreground.png", size, size, TRUE),
          Blank("cwd", dir, "ic_launcher_background.png", size, size)>>

RECURSIVE Flatten(_)
Flatten(ss) == IF ss = <<>> THEN <<>> ELSE Head(ss) \o Flatten(Tail(ss))

\* create_android_adaptive_icon_xmls(): nothing here is inside a try
create_android_adaptive_icon_xmls ==
    <<MkDir("proj", Res("mipmap-anydpi-v26")),
      WriteText("proj", Res("mipmap-anydpi-v26"), "ic_launcher.xml"),
      WriteText("proj", Res("mipmap-anydpi-v26"), "ic_launcher_round.xml")>>

AndroidIconCatalog(icon) ==
    Flatten([i \in 1 .. Len(android_densities) |->
                AndroidIconSteps(icon, android_densities[i])])
    \o <<MkDir("cwd", Res("mipmap-xxxhdpi")),
         Resize(icon, "cwd", Res("mipmap-xxxhdpi"), "ic_launcher_playstore.png",
                512, 512, FALSE)>>
    \o create_android_adaptive_icon_xmls
    \o <<Add(2)>>
    \o <<Report("Android app icons", Len(android_densities) * 4 + 3)>>

generate_android_icons(st, icon) ==
    Returns(RunSteps(AndroidIconCatalog(icon), Fresh(st)))

\* <<density, scale numerator, scale denominator>>: 0.75, 1.0, 1.5, 2.0, 3.0, 4.0
android_logo_densities ==
    <<<<"ldpi", 3, 4>>, <<"mdpi", 1, 1>>, <<"hdpi", 3, 2>>, <<"xhdpi", 2, 1>>,
      <<"xxhdpi", 3, 1>>, <<"xxxhdpi", 4, 1>>>>

\* int(base * scale); the products are exact in floating point
Scaled(base, d) == (base * d[2]) \div d[3]

AndroidLogoSteps(logo, name, label) ==
    Flatten([i \in 1 .. Len(android_logo_densities) |->
                LET d == android_logo_densities[i]
                    dir == Res("drawable-" \o d[1])
                IN  <<MkDir("proj", dir),
                      Resize(logo, "proj", dir, name, Scaled(120, d), Scaled(32, d),
                             FALSE)>>])
    \o <<MkDir("proj", Res("drawable")),
         Resize(logo, "proj", Res("drawable"), name, 120, 32, FALSE)>>
    \o <<Report(label, Len(android_logo_densities) + 1)>>

generate_android_logos(st, logo) ==
    Returns(RunSteps(AndroidLogoSteps(logo, "logo.png", "Android header logos"),
                     Fresh(st)))

generate_android_logos_inverted(st, logo) ==
    Returns(RunSteps(AndroidLogoSteps(logo, "logo-inverted.png",
                                      "Android header inverted logos"),
                     Fresh(st)))

(***************************************************************************)
(* Splash screens.                                                         *)
(***************************************************************************)
\* The value of a function that ends with a bare "return".
NoneVal == -1

\* "v or 0" and "v if v else 0"
OrZero(v) == IF v = NoneVal THEN 0 ELSE v

ios_splash_sizes == <<2732, 1920, 1024>>

android_splash_densities ==
    <<<<"ldpi", 240, 320>>, <<"mdpi", 320, 480>>, <<"hdpi", 480, 720>>,
      <<"xhdpi", 640, 960>>, <<"xxhdpi", 960, 1440>>, <<"xxxhdpi", 1280, 1920>>>>

capacitor_splash_defaults ==
    <<"splash-2732x2732-1.png", "splash-2732x2732-2.png", "splash-2732x2732.png">>

splash_icon_sizes ==
    <<<<"mdpi", 96>>, <<"hdpi", 144>>, <<"xhdpi", 192>>, <<"xxhdpi", 288>>,
      <<"xxxhdpi", 384>>>>

SplashMasters == {"splash_square", "splash_portrait", "splash_landscape"}

\* the master the verification loop stops at
FirstMissingSplash ==
    IF ~Exists("splash_square") THEN "splash_square"
    ELSE IF ~Exists("splash_portrait") THEN "splash_portrait"
    ELSE "splash_landscape"

SplashSteps ==
    <<MkDir("proj", PublicSplash), MkDir("proj", SplashSet),
      MkDir("proj", Res("drawable"))>>
    \o [i \in 1 .. Len(ios_splash_sizes) |->
          Resize("splash_square", "proj", PublicSplash,
                 SizedName("splash-", ios_splash_sizes[i], ios_splash_sizes[i]),
                 ios_splash_sizes[i], ios_splash_sizes[i], FALSE)]
    \o [i \in 1 .. Len(ios_splash_sizes) |->
          Resize("splash_square", "proj", SplashSet,
                 SizedName("splash-", ios_splash_sizes[i], ios_splash_sizes[i]),
                 ios_splash_sizes[i], ios_splash_sizes[i], FALSE)]
    \o [i \in 1 .. Len(capacitor_splash_defaults) |->
          Resize("splash_square", "proj", SplashSet, capacitor_splash_defaults[i],
                 2732, 2732, FALSE)]
    \o Flatten([i \in 1 .. Len(android_splash_densities) |->
                  LET d == android_splash_densities[i]
                  IN  <<MkDir("proj", Res("drawable-port-" \o d[1])),
                        Resize("splash_portrait", "proj",
                               Res("drawable-port-" \o d[1]), "splash.png",
                               d[2], d[3], FALSE),
                        MkDir("proj", Res("drawable-land-" \o d[1])),
                        Resize("splash_landscape", "proj",
                               Res("drawable-land-" \o d[1]), "splash.png",
                               d[3], d[2], FALSE)>>])
    \o <<Resize("splash_portrait", "proj", Res("drawable"), "splash.png",
                1280, 1920, FALSE)>>
    \o <<Report("Splash screens",
                Len(ios_splash_sizes) * 2 + Len(capacitor_splash_defaults)
                + Len(android_splash_densities) * 2 + 1)>>

SplashIconSteps ==
    Flatten([i \in 1 .. Len(splash_icon_sizes) |->
                LET d == splash_icon_sizes[i]
                IN  <<MkDir("proj", Res("drawable-" \o d[1])),
                      Resize("splash_icon", "proj", Res("drawable-" \o d[1]),
                             "splash_icon_center.png", d[2], d[2], FALSE)>>])
    \o <<Report("Android 12+ splash icons", Len(splash_icon_sizes))>>

generate_android_splash_icons(st) ==
    IF ~Exists("splash_icon")
    THEN [st |-> Message(st, "warning", "Android 12+ splash icons"), ret |-> 0]
    ELSE Returns(RunSteps(SplashIconSteps, Fresh(st)))

\* any splash master missing: a message and a bare return, before any task
SplashGuard == \A r \in SplashMasters : Exists(r)

\* success_count += splash_icons if splash_icons else 0; return success_count
SplashSum(s1, r2) ==
    [st |-> [r2.st EXCEPT !.n = s1.n + OrZero(r2.ret)],
     ret |-> s1.n + OrZero(r2.ret)]

\* after the splash tasks: the Android 12+ splash icons, unless an
\* exception has escaped
SplashFinish(s1) ==
    IF s1.crash THEN [st |-> s1, ret |-> NoneVal]
    ELSE SplashSum(s1, generate_android_splash_icons(s1))

generate_splash_screens(st) ==
    IF ~SplashGuard
    THEN [st |-> Message(st, "missing", FirstMissingSplash), ret |-> NoneVal]
    ELSE SplashFinish(RunSteps(SplashSteps, Fresh(st)))

(***************************************************************************)
(* Metadata documents.                                                     *)
(***************************************************************************)
\* create_ios_contents_json(): two json.dump writes, none inside a try
create_ios_contents_json(st) ==
    RunSteps(<<MkDir("proj", AppIconSet),
               WriteText("proj", AppIconSet, "Contents.json"),
               MkDir("proj", SplashSet),
               WriteText("proj", SplashSet, "Contents.json")>>, st)

ManifestFile == <<"proj", "public", "manifest.json">>

\* The manifest file: status "absent", "malformed" (json.load raises) or
\* "valid"; icons stands for the icons array, other for the values of all
\* the other keys, writes counts the times the file has been written.
AbsentManifest == [status |-> "absent", icons |-> "none", other |-> "", writes |-> 0]

MalformedManifest ==
    [status |-> "malformed", icons |-> "none", other |-> "", writes |-> 0]

ValidManifest(icons, other) ==
    [status |-> "valid", icons |-> icons, other |-> other, writes |-> 0]

\* the two entries update_manifest_json assigns to manifest["icons"]
PwaIcons == "icon-192x192.png,icon-512x512.png"

\* a faulty update_manifest_json: a new document holding only the icons
update_manifest_json_IconsOnly ==
    IF manifest.status = "valid" /\ CanWrite(ManifestFile)
    THEN [manifest EXCEPT !.icons = PwaIcons, !.other = "", !.writes = @ + 1]
    ELSE manifest

\* a faulty update_manifest_json: the entries are appended to the array
update_manifest_json_Append ==
    IF manifest.status = "valid" /\ CanWrite(ManifestFile)
    THEN [manifest EXCEPT !.icons = @ \o "," \o PwaIcons, !.writes = @ + 1]
    ELSE manifest

\* update_manifest_json(): the state of public/manifest.json afterwards
update_manifest_json ==
    IF manifest.status = "valid" /\ CanWrite(ManifestFile)
    THEN [manifest EXCEPT !.icons = PwaIcons, !.writes = @ + 1]
    ELSE manifest

\* what update_manifest_json prints when it does not update the file
manifest_messages ==
    IF manifest.status = "absent" THEN {<<"warning", "manifest.json", "", "">>}
    ELSE IF manifest.status = "malformed" \/ ~CanWrite(ManifestFile)
    THEN {<<"error", "manifest.json", "", "">>}
    ELSE {}

(***************************************************************************)
(* main().                                                                 *)
(***************************************************************************)
MainOrder ==
    <<"web_icons", "web_logos", "web_logos_inverted", "ios_icons", "ios_logos",
      "ios_logos_inverted", "android_icons", "android_logos",
      "android_logos_inverted", "splash">>

CatalogNames == {MainOrder[i] : i \in 1 .. Len(MainOrder)}

\* the call main makes for each catalog, with the master it passes
Catalog(c, st) ==
    CASE c = "web_icons" -> generate_web_icons(st, "icon")
      [] c = "web_logos" -> generate_web_logos(st, "logo")
      [] c = "web_logos_inverted" -> generate_web_logos_inverted(st, "logo_inverted")
      [] c = "ios_icons" -> generate_ios_icons(st, "icon")
      [] c = "ios_logos" -> generate_ios_logos(st, "logo")
      [] c = "ios_logos_inverted" -> generate_ios_logos_inverted(st, "logo_inverted")
      [] c = "android_icons" -> generate_android_icons(st, "icon")
      [] c = "android_logos" -> generate_android_logos(st, "logo")
      [] c = "android_logos_inverted" ->
             generate_android_logos_inverted(st, "logo_inverted")
      [] OTHER -> generate_splash_screens(st)

\* the catalogs whose counts one "total_images_generated +=" line adds
Section(c) ==
    CASE c \in {"web_icons", "web_logos", "web_logos_inverted"} ->
             {"web_icons", "web_logos", "web_logos_inverted"}
      [] c \in {"ios_icons", "ios_logos", "ios_logos_inverted"} ->
             {"ios_icons", "ios_logos", "ios_logos_inverted"}
      [] c \in {"android_icons", "android_logos", "android_logos_inverted"} ->
             {"android_icons", "android_logos", "android_logos_inverted"}
      [] OTHER -> {"splash"}

RECURSIVE SumOver(_, _)
SumOver(f, S) ==
    IF S = {} THEN 0
    ELSE LET c == CHOOSE c \in S : TRUE IN f[c] + SumOver(f, S \ {c})

\* a faulty missing_images: the splash-icon master is not looked for
missing_images_SkipSplashIcon == {r \in Roles \ {"splash_icon"} : ~Exists(r)}

\* missing_images = [path for path in master_images.values() if not exists]
missing_images == {r \in Roles : ~Exists(r)}

Preflight ==
    /\ pc = "start"
    /\ IF missing_images # {}
       THEN pc' = "exited" /\ exit' = 1
       ELSE pc' = "catalogs" /\ exit' = exit
    /\ log' = log \cup {<<"missing", r, "", "">> : r \in missing_images}
    /\ UNCHANGED <<cwd, master, badDir, badFile, manifest, fs, dirs, wc, att, ran,
                   counts, reports, total, call, ret>>

\* counts with catalog c's value recorded
Recorded(c, v) == [k \in DOMAIN counts \cup {c} |-> IF k = c THEN v ELSE counts[k]]

\* the effect of calling catalog c from main: main after the call has ended
\* with r = [st, ret]; an escaped exception ends the process with status 1
CatalogReturn(c, r) ==
    /\ fs' = r.st.fs
    /\ dirs' = r.st.dirs
    /\ wc' = r.st.wc
    /\ att' = r.st.att
    /\ reports' = r.st.reports
    /\ log' = r.st.log
    /\ IF r.st.crash
       THEN /\ pc' = "crashed"
            /\ exit' = 1
            /\ UNCHANGED <<ran, counts, total>>
       ELSE /\ ran' = ran \cup {c}
            /\ counts' = Recorded(c, OrZero(r.ret))
            /\ total' = IF Section(c) \subseteq ran \cup {c}
                        THEN total + SumOver(counts', Section(c))
                        ELSE total
            /\ pc' = IF CatalogNames \subseteq ran \cup {c} THEN "totals" ELSE pc
            /\ exit' = exit
    /\ UNCHANGED <<cwd, master, badDir, badFile, manifest, call, ret>>

CatalogStep(c) == CatalogReturn(c, Catalog(c, St0))

\* the next catalog call of main, in source order
RunCatalog ==
    /\ pc = "catalogs"
    /\ \E i \in 1 .. Len(MainOrder) :
          /\ MainOrder[i] \notin ran
          /\ \A j \in 1 .. i - 1 : MainOrder[j] \in ran
          /\ CatalogStep(MainOrder[i])

\* print(f"Total image assets placed in destination folders: {total}")
ReportTotal ==
    /\ pc = "totals"
    /\ reports' = Append(reports, <<"TOTAL", total, total>>)
    /\ pc' = "config"
    /\ UNCHANGED <<cwd, master, badDir, badFile, manifest, fs, dirs, wc, att, ran,
                   counts, total, exit, call, ret, log>>

ContentsJsonReturn(s) ==
    /\ fs' = s.fs
    /\ dirs' = s.dirs
    /\ wc' = s.wc
    /\ att' = att
    /\ log' = s.log
    /\ IF s.crash THEN pc' = "crashed" /\ exit' = 1
       ELSE pc' = "manifest" /\ exit' = exit

ContentsJson ==
    /\ pc = "config"
    /\ ContentsJsonReturn(create_ios_contents_json(St0))
    /\ UNCHANGED <<cwd, master, badDir, badFile, manifest, ran, counts, reports,
                   total, call, ret>>

UpdateManifest ==
    /\ pc = "manifest"
    /\ manifest' = update_manifest_json
    /\ log' = log \cup manifest_messages
    /\ pc' = "done"
    /\ exit' = 0
    /\ UNCHANGED <<cwd, master, badDir, badFile, fs, dirs, wc, att, ran, counts,
                   reports, total, call, ret>>

(***************************************************************************)
(* The engine on its own: one call of resize_image on arbitrary inputs.    *)
(***************************************************************************)
SmallDims == 1 .. MaxDim

\* sides around the adaptive-icon case of the catalogs (192 and its 70% box)
SrcDims == SmallDims \cup {134, 192, 193, 1024}

DstDims == SmallDims \cup {90, 192}

TestOut == <<"proj", "out", "image.png">>

EngineFaults == {"none", "missing", "corrupt", "nodir", "nowrite"}

NoCall == [op |-> "none", role |-> "icon", size |-> NoneSize,
           maintain_aspect |-> TRUE, safe |-> FALSE]

NoRet == [ok |-> FALSE, value |-> 0]

InitRun ==
    /\ fs = <<>>
    /\ dirs = {}
    /\ wc = <<>>
    /\ att = 0
    /\ ran = {}
    /\ counts = <<>>
    /\ reports = <<>>
    /\ total = 0
    /\ exit = -1
    /\ ret = NoRet
    /\ log = {}

InitEngine ==
    /\ InitRun
    /\ cwd = "root"
    /\ manifest = AbsentManifest
    /\ \E sw \in SrcDims, sh \in SrcDims, f \in EngineFaults, m \in {"RGBA", "RGB"} :
          /\ master = [r \in Roles |->
                         IF r = "icon"
                         THEN [status |-> IF f \in {"missing", "corrupt"} THEN f ELSE "ok",
                               w |-> sw, h |-> sh, mode |-> m]
                         ELSE [status |-> "ok", w |-> NominalSize(r)[1],
                               h |-> NominalSize(r)[2], mode |-> "RGBA"]]
          /\ badDir = IF f = "nodir" THEN {DirOf(TestOut)} ELSE {}
          /\ badFile = IF f = "nowrite" THEN {TestOut} ELSE {}
    /\ \E size \in (DstDims \X DstDims) \cup {NoneSize}, a \in BOOLEAN, s \in BOOLEAN :
          call = [op |-> "resize_image", role |-> "icon", size |-> size,
                  maintain_aspect |-> a, safe |-> s]
    /\ pc = "call"

\* resize_image(icon master, TestOut, size, maintain_aspect, safe)
ResizeReturn(r) ==
    /\ fs' = r.st.fs
    /\ dirs' = r.st.dirs
    /\ wc' = r.st.wc
    /\ att' = r.st.att
    /\ ret' = [ok |-> r.ok, value |-> 0]
    /\ log' = r.st.log

ResizeCall ==
    /\ pc = "call"
    /\ call.op = "resize_image"
    /\ ResizeReturn(resize_image(St0, call.role, TestOut, call.size,
                                 call.maintain_aspect, call.safe))
    /\ pc' = "returned"
    /\ UNCHANGED <<cwd, master, badDir, badFile, manifest, ran, counts, reports,
                   total, exit, call>>

NextEngine == ResizeCall

SpecEngine == InitEngine /\ [][NextEngine]_vars

(***************************************************************************)
(* Environments of a run: which masters are missing or corrupt, one        *)
(* obstructed directory or file, the working directory, the manifest.      *)
(***************************************************************************)
NominalMaster(missing, corrupt) ==
    [r \in Roles |->
        [status |-> IF r \in missing THEN "missing"
                    ELSE IF r \in corrupt THEN "corrupt" ELSE "ok",
         w |-> NominalSize(r)[1], h |-> NominalSize(r)[2], mode |-> "RGBA"]]

\* the obstructions drawn: <<directories, files>>
Obstructions ==
    {<<{}, {}>>,
     <<{<<"proj", PublicIcons>>}, {}>>,
     <<{<<"cwd", Res("mipmap-hdpi")>>}, {}>>,
     <<{<<"proj", Res("mipmap-anydpi-v26")>>}, {}>>,
     <<{<<"proj", Res("drawable-xhdpi")>>}, {}>>,
     <<{}, {<<"proj", PublicIcons, "icon-192x192.png">>}>>,
     <<{}, {<<"proj", ClientAssets, "icon-192x192.png">>}>>,
     <<{}, {<<"cwd", AppIconSet, "icon-1024x1024.png">>}>>,
     <<{}, {<<"cwd", Res("mipmap-mdpi"), "ic_launcher_background.png">>}>>,
     <<{}, {<<"proj", Res("mipmap-anydpi-v26"), "ic_launcher_round.xml">>}>>,
     <<{}, {<<"proj", SplashSet, "splash-2732x2732.png">>}>>,
     <<{}, {<<"proj", SplashSet, "Contents.json">>}>>,
     <<{}, {ManifestFile}>>}

\* the manifests drawn
Manifests ==
    {AbsentManifest, MalformedManifest}
    \cup {ValidManifest(i, o) : i \in {"none", "old"}, o \in {"a", "b"}}

InitEnv ==
    /\ InitRun
    /\ cwd \in {"root", "other"}
    /\ manifest \in Manifests
    /\ \E faulty \in SUBSET Roles :
          /\ Cardinality(faulty) <= MaxFaulty
          /\ \E missing \in SUBSET faulty :
                master = NominalMaster(missing, faulty \ missing)
    /\ \E o \in Obstructions :
          /\ badDir = {ResolveDir(d) : d \in o[1]}
          /\ badFile = {Resolve(p) : p \in o[2]}

Init ==
    /\ InitEnv
    /\ call = NoCall
    /\ pc = "start"

Next == Preflight \/ RunCatalog \/ ReportTotal \/ ContentsJson \/ UpdateManifest

Spec == Init /\ [][Next]_vars

(***************************************************************************)
(* A catalog function called on its own, in any environment.               *)
(***************************************************************************)
InitCatalog ==
    /\ InitEnv
    /\ \E c \in CatalogNames :
          call = [op |-> "catalog", role |-> c, size |-> NoneSize,
                  maintain_aspect |-> TRUE, safe |-> FALSE]
    /\ pc = "call"

DirectReturn(r) ==
    /\ fs' = r.st.fs
    /\ dirs' = r.st.dirs
    /\ wc' = r.st.wc
    /\ att' = r.st.att
    /\ reports' = r.st.reports
    /\ log' = r.st.log
    /\ ret' = [ok |-> ~r.st.crash, value |-> r.ret]
    /\ pc' = IF r.st.crash THEN "raised" ELSE "returned"

CatalogCall ==
    /\ pc = "call"
    /\ call.op = "catalog"
    /\ DirectReturn(Catalog(call.role, St0))
    /\ UNCHANGED <<cwd, master, badDir, badFile, manifest, ran, counts, total,
                   exit, call>>

NextCatalog == CatalogCall

SpecCatalog == InitCatalog /\ [][NextCatalog]_vars

(***************************************************************************)
(* The catalogs run in any order (a reordered or parallelised main).       *)
(***************************************************************************)
\* the orders drawn: main's order rotated by k places, and main's order
\* reversed
Rotated(k) ==
    [i \in 1 .. Len(MainOrder) |-> MainOrder[((i + k - 1) % Len(MainOrder)) + 1]]

Reversed == [i \in 1 .. Len(MainOrder) |-> MainOrder[Len(MainOrder) + 1 - i]]

Orders == {Rotated(k) : k \in 0 .. Len(MainOrder) - 1} \cup {Reversed}

InitPerm ==
    /\ InitRun
    /\ cwd \in {"root", "other"}
    /\ manifest = ValidManifest("old", "a")
    /\ badDir = {}
    /\ badFile = {}
    /\ \E corrupt \in SUBSET Roles :
          /\ Cardinality(corrupt) <= 1
          /\ master = NominalMaster({}, corrupt)
    /\ \E o \in Orders : call = [op |-> "main", order |-> o]
    /\ pc = "start"

\* the next catalog call of main, in the order drawn
RunAnyCatalog ==
    /\ pc = "catalogs"
    /\ CatalogStep(call.order[Cardinality(ran) + 1])

NextPerm == Preflight \/ RunAnyCatalog

SpecPerm == InitPerm /\ [][NextPerm]_vars

\* The catalog calls of main in source order, from an empty output tree:
\* the file system and the counts they leave.
EmptySt ==
    [fs |-> <<>>, dirs |-> {}, wc |-> <<>>, att |-> 0, n |-> 0, crash |-> FALSE,
     reports |-> <<>>, log |-> {}]

RECURSIVE MainFrom(_, _, _)
MainThen(i, r, cs) ==
    MainFrom(i + 1, r.st,
             [k \in DOMAIN cs \cup {MainOrder[i]} |->
                 IF k = MainOrder[i] THEN OrZero(r.ret) ELSE cs[k]])

MainFrom(i, st, cs) ==
    IF i > Len(MainOrder) THEN [st |-> st, counts |-> cs]
    ELSE MainThen(i, Catalog(MainOrder[i], st), cs)

SourceOrderRun == MainFrom(1, EmptySt, <<>>)

(***************************************************************************)
(* The tasks of a catalog, as data: what it is expected to produce and     *)
(* which of its tasks the environment makes fail.                          *)
(***************************************************************************)
\* every step of catalog c when all its guards pass
AllSteps(c) ==
    CASE c = "web_icons" -> WebIconSteps("icon")
      [] c = "web_logos" -> WebLogoSteps("logo", TRUE)
      [] c = "web_logos_inverted" -> WebLogoInvertedSteps("logo_inverted")
      [] c = "ios_icons" -> IosIconSteps("icon")
      [] c = "ios_logos" ->
             IosLogoSteps("logo", LogoSet, ios_logo_sizes(""), "iOS header logos")
      [] c = "ios_logos_inverted" ->
             IosLogoSteps("logo_inverted", LogoInvertedSet,
                          ios_logo_sizes("-inverted"), "iOS header inverted logos")
      [] c = "android_icons" -> AndroidIconCatalog("icon")
      [] c = "android_logos" ->
             AndroidLogoSteps("logo", "logo.png", "Android header logos")
      [] c = "android_logos_inverted" ->
             AndroidLogoSteps("logo_inverted", "logo-inverted.png",
                              "Android header inverted logos")
      [] OTHER -> SplashSteps \o SplashIconSteps

IsTask(s) == s.op \in TaskOps

TaskSteps(c) == SelectSeq(AllSteps(c), IsTask)

\* N: the number of tasks of catalog c
TaskCount(c) == Len(TaskSteps(c))

\* the task cannot produce its output in this environment: its source is
\* missing or corrupt, or its destination cannot be written
TaskFails(s) ==
    \/ ~CanWrite(StepPath(s))
    \/ s.op = "resize" /\ master[s.role].status # "ok"
    \/ s.op = "copy" /\ Resolve(<<s.base, s.srcdir, s.role>>) \notin DOMAIN fs

\* K: the number of failing tasks of catalog c
FailCount(c) == Len(SelectSeq(TaskSteps(c), TaskFails))

RECURSIVE SumField(_, _)
SumField(rs, k) == IF rs = <<>> THEN 0 ELSE Head(rs)[k] + SumField(Tail(rs), k)

(***************************************************************************)
(* Claims about main and the catalogs.                                     *)
(***************************************************************************)
NothingWritten ==
    /\ DOMAIN fs = {} /\ DOMAIN wc = {} /\ dirs = {}
    /\ att = 0 /\ ran = {} /\ manifest.writes = 0

\* C1: if a required master is absent when the run starts, the run exits
\* with status 1, no catalog task is attempted and nothing is written; the
\* existence check precedes every write.
C1_PreflightGate ==
    /\ pc = "start" => NothingWritten
    /\ (\E r \in Roles : ~Exists(r)) =>
          /\ pc \in {"start", "exited"}
          /\ pc = "exited" => exit = 1
          /\ NothingWritten
    /\ (pc = "exited" /\ exit = 1) => ~(\A r \in Roles : Exists(r))

\* only the adaptive splash-icon master is absent, and the run has exited
C1_Witness ==
    /\ pc = "exited" /\ exit = 1
    /\ \A r \in Roles : Exists(r) <=> r # "splash_icon"
    /\ NothingWritten

\* C2: an error while producing one output of a catalog (the catalog's
\* directory creation and the adaptive-icon XML files included) only fails
\* that task: no exception ends the run inside a catalog, and when the
\* catalogs are through every task has been attempted.
C2_TaskFailureIsolated ==
    /\ pc = "crashed" => CatalogNames \subseteq ran
    /\ pc = "totals" => att = SumOver([c \in CatalogNames |-> TaskCount(c)],
                                      CatalogNames)

\* C3: a catalog function with N tasks of which K fail returns and reports
\* N - K succeeded, and reports N expected.
C3_CounterAccuracy ==
    (pc = "returned" /\ call.op = "catalog") =>
        /\ ret.value = TaskCount(call.role) - FailCount(call.role)
        /\ SumField(reports, 2) = ret.value
        /\ SumField(reports, 3) = TaskCount(call.role)

\* C4: whatever the order of the catalogs, the files, their contents and
\* the counts are those of the source order.
C4_OrderIndependent ==
    pc = "totals" =>
        /\ fs = SourceOrderRun.st.fs
        /\ counts = SourceOrderRun.counts

\* C5: every destination path is written at most once per run.
C5_DestinationsDisjoint == \A p \in DOMAIN wc : wc[p] <= 1

(***************************************************************************)
(* Claims about the engine, checked under SpecEngine.                      *)
(***************************************************************************)
EngineDone == pc = "returned" /\ call.op = "resize_image"

\* resize_image returned True: TestOut holds the saved image
Saved == EngineDone /\ ret.ok

SrcW == master["icon"].w

SrcH == master["icon"].h

TgtW == IF call.size = NoneSize THEN SrcW ELSE call.size[1]

TgtH == IF call.size = NoneSize THEN SrcH ELSE call.size[2]

Img == fs[Resolve(TestOut)]

AspectPad == Saved /\ call.maintain_aspect /\ ~call.safe

SafeMargin == Saved /\ call.maintain_aspect /\ call.safe

\* C6 as stated: aspect-pad output is exactly (tw, th), the content fits,
\* and the content always touches the canvas in width or in height.
C6_AspectPadAlwaysTouches ==
    AspectPad =>
        /\ Img.w = TgtW /\ Img.h = TgtH
        /\ Img.cw <= TgtW /\ Img.ch <= TgtH
        /\ (Img.cw = TgtW \/ Img.ch = TgtH)

\* C6 amended: aspect-pad output is exactly (tw, th) and the content fits;
\* the content touches the canvas in width or height whenever the source
\* exceeds the target in width or height, and a source that fits inside the
\* target is pasted at its native size (thumbnail never enlarges).
C6_AspectPadContainment ==
    AspectPad =>
        /\ Img.w = TgtW /\ Img.h = TgtH
        /\ Img.cw <= TgtW /\ Img.ch <= TgtH
        /\ (SrcW > TgtW \/ SrcH > TgtH) => (Img.cw = TgtW \/ Img.ch = TgtH)
        /\ (SrcW <= TgtW /\ SrcH <= TgtH) => (Img.cw = SrcW /\ Img.ch = SrcH)

\* a wide source shrunk to the target's width, padded above and below
C6_Witness ==
    /\ AspectPad
    /\ SrcW > TgtW /\ Img.cw = TgtW /\ Img.ch < TgtH /\ Img.ch < SrcH

\* C7 as stated, in the form of its own consequence: with the safe margin
\* requested the content never occupies more than 70% of either canvas
\* axis, also when the source's native size equals the target size.
C7_SafeMarginAlways ==
    (SafeMargin /\ call.size # NoneSize) =>
        (10 * Img.cw <= 7 * TgtW /\ 10 * Img.ch <= 7 * TgtH)

\* C8: safe margin, target (192,192), source larger than the target: the
\* content fits in (134,134) and each of the four borders is >= 29 pixels.
C8_SafeMargin192 ==
    (SafeMargin /\ call.size = <<192, 192>> /\ (SrcW > 192 \/ SrcH > 192)) =>
        /\ Img.cw <= 134 /\ Img.ch <= 134
        /\ Img.x >= 29 /\ Img.y >= 29
        /\ 192 - Img.cw - Img.x >= 29
        /\ 192 - Img.ch - Img.y >= 29

\* the 1024x1024 icon master on the xxxhdpi adaptive foreground canvas
C8_Witness ==
    /\ SafeMargin /\ call.size = <<192, 192>>
    /\ SrcW = 1024 /\ SrcH = 1024
    /\ Img.cw = 134 /\ Img.ch = 134 /\ Img.x = 29 /\ Img.y = 29

\* C9: in both aspect-preserving modes the content sits at
\* x = floor((tw - cw)/2), y = floor((th - ch)/2); left/right and top/bottom
\* margins differ by at most 1 and no margin is negative.
C9_Centering ==
    (Saved /\ call.maintain_aspect) =>
        LET left == Img.x
            right == TgtW - Img.cw - Img.x
            top == Img.y
            bottom == TgtH - Img.ch - Img.y
        IN  /\ 2 * left <= TgtW - Img.cw /\ TgtW - Img.cw <= 2 * left + 1
            /\ 2 * top <= TgtH - Img.ch /\ TgtH - Img.ch <= 2 * top + 1
            /\ Abs(right - left) <= 1 /\ Abs(bottom - top) <= 1
            /\ left >= 0 /\ right >= 0 /\ top >= 0 /\ bottom >= 0

\* an odd horizontal slack: the right margin is one pixel wider
C9_Witness ==
    /\ Saved /\ call.maintain_aspect /\ Img.kind = "png"
    /\ Img.x >= 1
    /\ TgtW - Img.cw - Img.x = Img.x + 1

\* C10: when size is None or equals the source's native size (and neither
\* the read nor the write raises), resize_image returns True and the output
\* holds the source file's bytes, whatever the two mode flags are.
C10_ExactCopy ==
    (EngineDone /\ master["icon"].status = "ok" /\ CanWrite(TestOut)
       /\ IsExactSize("icon", call.size)) =>
        /\ ret.ok
        /\ Resolve(TestOut) \in DOMAIN fs
        /\ fs[Resolve(TestOut)] = MasterBytes("icon")

\* an exact-size request with the safe margin flag set, copied verbatim
C10_Witness ==
    /\ Saved /\ call.safe /\ ~call.maintain_aspect
    /\ call.size = <<SrcW, SrcH>>
    /\ master["icon"].mode = "RGB"
    /\ Img = MasterBytes("icon")

(***************************************************************************)
(* Further claims about the engine.                                        *)
(***************************************************************************)
\* C11: every image file resize_image writes is in RGBA pixel format,
\* whether or not the source had an alpha channel, on every path, the
\* exact-size path included.
C11_AlphaAlways == Saved => Img.mode = "RGBA"

(***************************************************************************)
(* Two runs of main in succession on the same project tree: the output     *)
(* files, the directories and the manifest of the first run are still      *)
(* there when the second run starts.                                       *)
(***************************************************************************)
\* what the manifest file holds, apart from how often it was written
ManifestContent(m) == [m EXCEPT !.writes = 0]

\* the process is started again after a run that ended with status 0;
\* call keeps what the first run left and reported
RunAgain ==
    /\ pc = "done"
    /\ call.op = "none"
    /\ call' = [op |-> "second", fs |-> fs, counts |-> counts, total |-> total,
                reports |-> reports, manifest |-> ManifestContent(manifest)]
    /\ wc' = <<>>
    /\ att' = 0
    /\ ran' = {}
    /\ counts' = <<>>
    /\ reports' = <<>>
    /\ total' = 0
    /\ exit' = -1
    /\ log' = {}
    /\ pc' = "start"
    /\ UNCHANGED <<cwd, master, badDir, badFile, manifest, fs, dirs, ret>>

\* every required master is present: runs stopped by the pre-flight check
\* have no second run
InitTwice ==
    /\ Init
    /\ \A r \in Roles : Exists(r)

NextTwice == Next \/ RunAgain

SpecTwice == InitTwice /\ [][NextTwice]_vars

\* C12: with unchanged masters the second of two successive runs of main
\* ends like the first (status 0, no exception because an output or a
\* directory exists) and leaves the same files with the same contents, the
\* same manifest, the same per-catalog counts, reports and total.
C12_Idempotent ==
    call.op = "second" =>
        /\ pc # "crashed"
        /\ pc = "done" =>
              /\ exit = 0
              /\ fs = call.fs
              /\ counts = call.counts
              /\ total = call.total
              /\ reports = call.reports
              /\ ManifestContent(manifest) = call.manifest

\* a second run has completed, has rewritten its outputs and the manifest
C12_Witness ==
    /\ call.op = "second" /\ pc = "done"
    /\ total > 0
    /\ \E p \in DOMAIN wc : wc[p] >= 1 /\ p \in DOMAIN call.fs
    /\ manifest.writes = 2

(***************************************************************************)
(* Claims about the metadata documents.                                    *)
(***************************************************************************)
\* C13: once the catalogs are through, a failure while writing a metadata
\* document (a Contents.json descriptor, the manifest update) does not end
\* the run: no exception escapes, the run completes and exits with status 0.
C13_MetadataNonFatal ==
    CatalogNames \subseteq ran =>
        /\ pc # "crashed"
        /\ exit \in {-1, 0}
        /\ pc = "done" => exit = 0

\* C14: update_manifest_json is a field-preserving read-modify-write.  A
\* manifest that exists, parses and can be written gets exactly the two PWA
\* icon entries and keeps the value of every other key; an absent manifest
\* is not created and a malformed one is left unchanged.
C14_ManifestReadModifyWrite ==
    [][pc = "manifest" =>
          /\ manifest'.status = manifest.status
          /\ manifest'.other = manifest.other
          /\ (manifest.status = "valid" /\ CanWrite(ManifestFile)) =>
                (manifest'.icons = PwaIcons /\ manifest'.writes = manifest.writes + 1)
          /\ manifest.status \in {"absent", "malformed"} => manifest' = manifest]_vars

\* a manifest with an old icons array and other keys has been updated
C14_Witness ==
    /\ pc = "done"
    /\ manifest.status = "valid" /\ manifest.writes = 1
    /\ manifest.icons = PwaIcons /\ manifest.other = "b"

(***************************************************************************)
(* The iOS descriptors written by create_ios_contents_json.                *)
(***************************************************************************)
\* appicon_contents["images"]: <<ten times the nominal size, idiom,
\* filename, scale>> (ten times, so that 83.5 is the integer 835)
appicon_contents ==
    <<<<200, "iphone", "AppIcon-20x20@2x.png", 2>>,
      <<200, "iphone", "AppIcon-20x20@3x.png", 3>>,
      <<290, "iphone", "AppIcon-29x29@2x.png", 2>>,
      <<290, "iphone", "AppIcon-29x29@3x.png", 3>>,
      <<400, "iphone", "AppIcon-40x40@2x.png", 2>>,
      <<400, "iphone", "AppIcon-40x40@3x.png", 3>>,
      <<600, "iphone", "AppIcon-60x60@2x.png", 2>>,
      <<600, "iphone", "AppIcon-60x60@3x.png", 3>>,
      <<200, "ipad", "AppIcon-20x20@1x.png", 1>>,
      <<200, "ipad", "AppIcon-20x20@2x.png", 2>>,
      <<290, "ipad", "AppIcon-29x29@1x.png", 1>>,
      <<290, "ipad", "AppIcon-29x29@2x.png", 2>>,
      <<400, "ipad", "AppIcon-40x40@1x.png", 1>>,
      <<400, "ipad", "AppIcon-40x40@2x.png", 2>>,
      <<760, "ipad", "AppIcon-76x76@1x.png", 1>>,
      <<760, "ipad", "AppIcon-76x76@2x.png", 2>>,
      <<835, "ipad", "AppIcon-83.5x83.5@2x.png", 2>>,
      <<10240, "ios-marketing", "icon-1024x1024.png", 1>>>>

\* splash_contents["images"]: <<idiom, filename, scale>>
splash_contents ==
    <<<<"universal", "splash-2732x2732.png", 1>>,
      <<"universal", "splash-1920x1920.png", 2>>,
      <<"universal", "splash-1024x1024.png", 3>>>>

\* the Contents.json files, where create_ios_contents_json writes them
AppIconDescriptor == Resolve(<<"proj", AppIconSet, "Contents.json">>)

SplashDescriptor == Resolve(<<"proj", SplashSet, "Contents.json">>)

\* the filenames an entry list names
AppIconListed == {appicon_contents[i][3] : i \in DOMAIN appicon_contents}

SplashListed == {splash_contents[i][2] : i \in DOMAIN splash_contents}

\* the filenames the tasks of generate_ios_icons write
IosIconNames ==
    {TaskSteps("ios_icons")[i].name : i \in DOMAIN TaskSteps("ios_icons")}

\* C15: the AppIcon Contents.json that has been written has exactly one
\* entry per icon file of generate_ios_icons: the entries' filenames are
\* pairwise distinct and the filenames listed are those the catalog writes.
C15_DescriptorComplete ==
    AppIconDescriptor \in DOMAIN fs =>
        /\ \A i, j \in DOMAIN appicon_contents :
              i # j => appicon_contents[i][3] # appicon_contents[j][3]
        /\ AppIconListed = IosIconNames

(***************************************************************************)
(* Further claims about the catalogs.                                      *)
(***************************************************************************)
\* the task has what it needs: its own master can be read and its
\* destination can be written
TaskCanSucceed(s) ==
    /\ s.op = "resize"
    /\ master[s.role].status = "ok"
    /\ CanWrite(StepPath(s))

\* C16: when a catalog function is called with some master missing, only
\* the tasks that use that master fail: on return, every task whose own
\* master is readable and whose destination is writable has been attempted
\* and has written its output.
C16_MissingMasterIsolated ==
    (pc = "returned" /\ call.op = "catalog") =>
        \A i \in DOMAIN TaskSteps(call.role) :
            TaskCanSucceed(TaskSteps(call.role)[i]) =>
                Resolve(StepPath(TaskSteps(call.role)[i])) \in DOMAIN fs

\* the elements of a sequence
Range(seq) == {seq[i] : i \in DOMAIN seq}

\* every output a complete run is expected to write, as tasks
ExpectedTasks == UNION {Range(TaskSteps(c)) : c \in CatalogNames}

\* a printed message names the task's destination, its master, or the
\* group of tasks it belongs to
Attributed(s) ==
    \/ <<"error", Resolve(StepPath(s))[1], Resolve(StepPath(s))[2],
         Resolve(StepPath(s))[3]>> \in log
    \/ s.op = "resize" /\ <<"missing", s.role, "", "">> \in log
    \/ /\ s.op = "resize" /\ s.role = "icon" /\ s.dir = ClientAssets
       /\ <<"warning", "icon variants", "", "">> \in log
    \/ /\ s.role = "splash_icon"
       /\ <<"warning", "Android 12+ splash icons", "", "">> \in log

\* C17: when the catalogs are through, every expected output that has not
\* been written has a printed message naming its destination or its task.
C17_NoSilentFailure ==
    CatalogNames \subseteq ran =>
        \A s \in ExpectedTasks :
            Resolve(StepPath(s)) \notin DOMAIN fs => Attributed(s)

\* the image files written so far (text documents are not images)
ImageFiles == {p \in DOMAIN fs : fs[p].kind \in {"png", "master"}}

\* C18: when the total is reported it equals the number of distinct image
\* files written during the run, and the sum of the counts the catalog
\* functions returned.
C18_TotalEqualsFilesPlaced ==
    pc = "config" =>
        /\ total = Cardinality(ImageFiles)
        /\ total = SumOver(counts, CatalogNames)

\* every task of the run succeeded: all outputs written, no exception
AllSucceeded ==
    /\ pc = "done"
    /\ \A s \in ExpectedTasks : Resolve(StepPath(s)) \in DOMAIN fs

\* the file a descriptor entry names, in the descriptor's own directory
Beside(descriptor, filename) == <<descriptor[1], descriptor[2], filename>>

\* C19: after a run in which all tasks succeed, whatever the working
\* directory, every filename listed in the AppIcon and Splash Contents.json
\* names a file the run wrote into the descriptor's directory, and each
\* AppIcon file is nominal size times scale pixels wide and high.
C19_DescriptorIntegrity ==
    AllSucceeded =>
        /\ AppIconDescriptor \in DOMAIN fs /\ SplashDescriptor \in DOMAIN fs
        /\ \A i \in DOMAIN appicon_contents :
              /\ Beside(AppIconDescriptor, appicon_contents[i][3]) \in DOMAIN fs
              /\ 10 * fs[Beside(AppIconDescriptor, appicon_contents[i][3])].w
                    = appicon_contents[i][1] * appicon_contents[i][4]
              /\ 10 * fs[Beside(AppIconDescriptor, appicon_contents[i][3])].h
                    = appicon_contents[i][1] * appicon_contents[i][4]
        /\ \A n \in SplashListed : Beside(SplashDescriptor, n) \in DOMAIN fs

====
